---- MODULE Spec2Model ----
(***************************************************************************)
(* musicsearch: recursive audio-file discovery, tag normalisation into an  *)
(* AudioFile record, an in-RAM tantivy index filled by rayon workers,      *)
(* one commit, then query serving through a REPL or a live TUI.            *)
(*                                                                         *)
(* Strings are sequences of one-character strings, so that to_lowercase,   *)
(* split_once, parse, extension() and substring matching are computed.     *)
(* Option<T> is a sequence of length 0 (None) or 1 (Some).                 *)
(***************************************************************************)
EXTENDS Integers, Sequences, FiniteSets, TLC

(* ------------------------------ bounds -------------------------------- *)

\* rayon worker threads pulling from the bridged directory walk
NumWorkers == 2

\* directory entries one run of the walk yields at most
MaxEntries == 3

\* tags of one decoded file folded by from_kv_and_path
MaxTags == 2

\* characters the TUI input area holds at most
MaxInputLen == 2

\* documents of the committed snapshot the UI specification starts from
MaxDocs == 21

(* ------------------------------ strings ------------------------------- *)

None == <<>>

Some(x) == <<x>>

IsSome(o) == o # <<>>

UpperChars == <<"A","B","C","D","E","G","I","K","L","M","N","P","R","S","T","U">>

LowerChars == <<"a","b","c","d","e","g","i","k","l","m","n","p","r","s","t","u">>

\* char::to_lowercase on the letters of the model's alphabet
LowerChar(c) ==
    IF \E i \in 1..Len(UpperChars) : UpperChars[i] = c
    THEN LowerChars[CHOOSE i \in 1..Len(UpperChars) : UpperChars[i] = c]
    ELSE c

\* str::to_lowercase
ToLowercase(s) == [i \in 1..Len(s) |-> LowerChar(s[i])]

\* position of the first occurrence of c in s, 0 when there is none
FindChar(s, c) ==
    IF \E i \in 1..Len(s) : s[i] = c
    THEN CHOOSE i \in 1..Len(s) : s[i] = c /\ \A j \in 1..(i-1) : s[j] # c
    ELSE 0

\* position of the last occurrence of c in s, 0 when there is none
RFindChar(s, c) ==
    IF \E i \in 1..Len(s) : s[i] = c
    THEN CHOOSE i \in 1..Len(s) : s[i] = c /\ \A j \in (i+1)..Len(s) : s[j] # c
    ELSE 0

Digits == <<"0","1","2","3","4","5","6","7","8","9">>

IsDigit(c) == \E i \in 1..10 : Digits[i] = c

DigitVal(c) == (CHOOSE i \in 1..10 : Digits[i] = c) - 1

RECURSIVE DigitsValue(_)
DigitsValue(s) ==
    IF s = <<>> THEN 0
    ELSE 10 * DigitsValue(SubSeq(s, 1, Len(s) - 1)) + DigitVal(s[Len(s)])

\* <u64 as FromStr>::from_str: an optional '+', then one or more ASCII
\* digits; None stands for Err.  (Values stay far below 2^64 here.)
ParseU64(s) ==
    LET body == IF s # <<>> /\ s[1] = "+" THEN Tail(s) ELSE s
    IN  IF body = <<>> \/ \E i \in 1..Len(body) : ~IsDigit(body[i])
        THEN None
        ELSE Some(DigitsValue(body))

\* needle occurs in hay as a contiguous substring
Contains(hay, needle) ==
    \E i \in 0..(Len(hay) - Len(needle)) :
        \A j \in 1..Len(needle) : hay[i + j] = needle[j]

(* ------------------------------ AudioFile ----------------------------- *)

\* AudioFile::new: the path, every other field at its Default
NewAudioFile(path) ==
    [ file_path |-> path, album_artist |-> None, artist |-> None,
      album |-> None, title |-> None, track |-> None, date |-> None,
      year |-> None, extras |-> <<>> ]

K_ALBUM_ARTIST == <<"a","l","b","u","m","_","a","r","t","i","s","t">>
K_ARTIST == <<"a","r","t","i","s","t">>
K_ALBUM == <<"a","l","b","u","m">>
K_TITLE == <<"t","i","t","l","e">>
K_TRACK == <<"t","r","a","c","k">>
K_DATE == <<"d","a","t","e">>

PlaceKeyVerbatim(key) == key

\* the key place() matches on: key.as_ref().to_lowercase()
PlaceKey(key) == ToLowercase(key)

TrackPartWhole(value) == value

\* value.split_once('/').map_or(&*value, |(n, _total)| n)
TrackPart(value) ==
    LET p == FindChar(value, "/")
    IN  IF p = 0 THEN value ELSE SubSeq(value, 1, p - 1)

\* HashMap::insert
MapInsert(m, k, v) == [x \in (DOMAIN m) \cup {k} |-> IF x = k THEN v ELSE m[x]]

\* AudioFile::place
Place(self, key, value) ==
    LET k == PlaceKey(key)
    IN  CASE k = K_ALBUM_ARTIST -> [self EXCEPT !.album_artist = Some(value)]
          [] k = K_ARTIST -> [self EXCEPT !.artist = Some(value)]
          [] k = K_ALBUM -> [self EXCEPT !.album = Some(value)]
          [] k = K_TITLE -> [self EXCEPT !.title = Some(value)]
          [] k = K_TRACK ->
                LET n == ParseU64(TrackPart(value))
                IN  IF IsSome(n) THEN [self EXCEPT !.track = n] ELSE self
          [] k = K_DATE -> [self EXCEPT !.date = Some(value)]
          [] OTHER -> [self EXCEPT !.extras = MapInsert(self.extras, k, value)]

\* AudioFile::from_kv_and_path: place every (key, value) in iteration order
RECURSIVE FoldPlace(_, _)
FoldPlace(self, kv) ==
    IF kv = <<>> THEN self
    ELSE FoldPlace(Place(self, kv[1][1], kv[1][2]), Tail(kv))

FromKvAndPath(path, kv) == FoldPlace(NewAudioFile(path), kv)

(* ------------------------------ HardSchema ---------------------------- *)

\* HardSchema::PATH .. ITEM_TYPE, in the order schema() adds them
SchemaFields == <<"path", "artist", "album", "title", "track", "date", "extras", "type">>

\* schema(): every field is text_stored (or INDEXED | STORED) except extras,
\* which is plain `text`: indexed, not stored
IsStored(f) == f # "extras"

\* OwnedValue::Str / OwnedValue::U64
StrVal(s) == [kind |-> "Str", s |-> s, n |-> 0]

U64Val(n) == [kind |-> "U64", s |-> <<>>, n |-> n]

\* "song", the constant item_type
SONG == <<"s","o","n","g">>

\* extras.values().collect::<Vec<&str>>().join(" "), the values taken in the
\* HashMap's iteration order `order` (a sequence of its keys)
RECURSIVE JoinValues(_, _)
JoinValues(m, order) ==
    IF order = <<>> THEN <<>>
    ELSE IF Len(order) = 1 THEN m[order[1]]
    ELSE m[order[1]] \o <<" ">> \o JoinValues(m, Tail(order))

\* the iteration orders a HashMap with these keys can have
KeyOrders(m) ==
    { o \in [1..Cardinality(DOMAIN m) -> DOMAIN m] :
        \A i, j \in 1..Cardinality(DOMAIN m) : i # j => o[i] # o[j] }

OptText(f, o) == IF IsSome(o) THEN << <<f, StrVal(o[1])>> >> ELSE <<>>

ArtistOnly(self) == self.artist

\* self.artist.as_ref().or(self.album_artist.as_ref())
ArtistOr(self) == IF IsSome(self.artist) THEN self.artist ELSE self.album_artist

\* AudioFile::tantivy_store
TantivyStore(self, order) ==
    << <<"path", StrVal(self.file_path)>> >>
    \o OptText("artist", ArtistOr(self))
    \o OptText("album", self.album)
    \o OptText("title", self.title)
    \o (IF IsSome(self.track) THEN << <<"track", U64Val(self.track[1])>> >> ELSE <<>>)
    \o OptText("date", self.date)
    \o << <<"extras", StrVal(JoinValues(self.extras, order))>> >>
    \o << <<"type", StrVal(SONG)>> >>

\* AudioFile::store_fieldvalue (must_string / must_u64 read the payload)
StoreFieldValue(self, fv) ==
    LET f == fv[1]
        v == fv[2]
    IN  CASE f = "path" -> [self EXCEPT !.file_path = v.s]
          [] f = "artist" -> [self EXCEPT !.artist = Some(v.s)]
          [] f = "album" -> [self EXCEPT !.album = Some(v.s)]
          [] f = "title" -> [self EXCEPT !.title = Some(v.s)]
          [] f = "track" -> [self EXCEPT !.track = Some(v.n)]
          [] f = "date" -> [self EXCEPT !.date = Some(v.s)]
          [] OTHER -> self

RECURSIVE FoldFieldValues(_, _)
FoldFieldValues(self, fvs) ==
    IF fvs = <<>> THEN self
    ELSE FoldFieldValues(StoreFieldValue(self, fvs[1]), Tail(fvs))

\* AudioFile::tantivy_recall
TantivyRecall(doc) == FoldFieldValues(NewAudioFile(<<>>), doc)

\* searcher.doc(address): the document store returns the stored fields only
IsStoredFieldValue(fv) == IsStored(fv[1])

StoredDoc(doc) == SelectSeq(doc, IsStoredFieldValue)

(* ------------------------------ discovery ----------------------------- *)

\* AUDIO_EXT
AUDIO_EXT ==
    { <<"m","p","3">>,
      <<"f","l","a","c">>, <<"o","p","u","s">>, <<"a","p","e">>, <<"o","g","g">>,
      <<"m","k","a">>, <<"w","e","b","m">>,
      <<"a","a","c">>, <<"a","l","a","c">>, <<"m","4","a">>, <<"c","a","f">>,
      <<"w","m","a">>, <<"w","a","v">> }

\* Utf8Path::file_name: the last component
FileName(path) == SubSeq(path, RFindChar(path, "/") + 1, Len(path))

ExtensionFolded(path) ==
    LET name == FileName(path)
        p == RFindChar(name, ".")
    IN  IF name = <<".", ".">> \/ p <= 1 THEN None
        ELSE Some(ToLowercase(SubSeq(name, p + 1, Len(name))))

\* Utf8Path::extension: the part of the file name after its last '.', None
\* when there is no '.' or the only one begins the name
Extension(path) ==
    LET name == FileName(path)
        p == RFindChar(name, ".")
    IN  IF name = <<".", ".">> \/ p <= 1 THEN None
        ELSE Some(SubSeq(name, p + 1, Len(name)))

\* the filter of recursive_find_audiofiles: errors pass, else regular files
PassesFilter(e) == e.walkErr \/ e.isFile

MapErr(calls) == [ok |-> FALSE, rec |-> NewAudioFile(<<>>), calls |-> calls]

MapEntryLenient(e) ==
    [ok |-> TRUE, rec |-> NewAudioFile(e.path), calls |-> {}]

\* the map closure of recursive_find_audiofiles: io::Result<AudioFile>, with
\* the external calls it made (canonicalize_utf8, ffmpeg_next::format::input)
MapEntry(e) ==
    IF e.walkErr THEN MapErr({})
    ELSE IF ~e.utf8 THEN MapErr({})
    ELSE LET ext == Extension(e.path)
         IN  IF ext = None THEN MapErr({})
             ELSE IF ext[1] \notin AUDIO_EXT THEN MapErr({})
             ELSE IF e.canon = None THEN MapErr({"canonicalize"})
             ELSE IF e.tags = None THEN MapErr({"canonicalize", "open"})
             ELSE [ok |-> TRUE,
                   rec |-> FromKvAndPath(e.canon[1], e.tags[1]),
                   calls |-> {"canonicalize", "open"}]

(* ------------------------------ search -------------------------------- *)

\* TopDocs::with_limit(15) of the REPL
ReplLimit == 15

\* TopDocs::with_limit(20) of render_search
TuiLimit == 20

\* the whitespace-separated terms of a query string
RECURSIVE Terms(_)
Terms(q) ==
    IF q = <<>> THEN <<>>
    ELSE IF q[1] = " " THEN Terms(Tail(q))
    ELSE LET sp == FindChar(q, " ")
         IN  IF sp = 0 THEN <<q>>
             ELSE <<SubSeq(q, 1, sp - 1)>> \o Terms(SubSeq(q, sp + 1, Len(q)))

\* qp.parse_query_lenient(q).0: never an error; no term gives the empty query
ParseQueryLenient(q) == Terms(q)

\* a term against one field value of a document: a text field is tokenized
\* by "ngram3" with LowerCaser (substring match, case folded), the u64 field
\* track matches the term read as a number
TermMatchesValue(t, fv) ==
    IF fv[2].kind = "Str"
    THEN Contains(ToLowercase(fv[2].s), ToLowercase(t))
    ELSE ParseU64(t) = Some(fv[2].n)

\* set_conjunction_by_default over map.all(): every term matches some field
QueryMatches(query, d) ==
    /\ query # <<>>
    /\ \A i \in 1..Len(query) : \E j \in 1..Len(d) : TermMatchesValue(query[i], d[j])

RECURSIVE MatchingAddresses(_, _, _)
MatchingAddresses(query, snap, from) ==
    IF from > Len(snap) THEN <<>>
    ELSE (IF QueryMatches(query, snap[from]) THEN <<from>> ELSE <<>>)
         \o MatchingAddresses(query, snap, from + 1)

\* the TopDocs collector: the first `limit` hits (relevance order is
\* abstracted to insertion order)
TakeLimit(hits, limit) == IF Len(hits) <= limit THEN hits ELSE SubSeq(hits, 1, limit)

\* search.search(&q, &TopDocs::with_limit(limit)): document addresses
Search(query, snap, limit) == TakeLimit(MatchingAddresses(query, snap, 1), limit)

\* AudioFile::tantivy_recall(map, &search.doc(address).unwrap()) per hit
RecallHits(addresses, snap) ==
    [i \in 1..Len(addresses) |-> TantivyRecall(StoredDoc(snap[addresses[i]]))]

\* top_resp.into_iter().rev()
Reversed(xs) == [i \in 1..Len(xs) |-> xs[Len(xs) + 1 - i]]

InputChangedAlways(now, last) == TRUE

\* uibox: input.get_content() != content
InputChanged(now, last) == now # last

(* ------------------------------ state --------------------------------- *)

VARIABLES
    \* one record's life: built by place calls, stored, recalled
    rphase, rec, nplaced, lastKey, lastVal, doc, recalled,
    \* one directory entry's way through filter, map closure and main's map
    fpc, entry, fres, fadded, fcount,
    \* main: the walk, the rayon workers, the writer, the commit, the reader
    mainpc, uiopt, yielded, exhausted, wpc, wrec, wdoc, buffer, committed,
    commits, songs, printed, reader,
    \* what the walk met and what add_document was given (history)
    seenOk, addCalls, addedOk,
    \* the front end: the REPL's last line, the TUI's widgets and loop
    line, input, content, output, running, rendered, parsed, searched, elapsed

recVars == <<rphase, rec, nplaced, lastKey, lastVal, doc, recalled>>

fileVars == <<fpc, entry, fres, fadded, fcount>>

pipeVars ==
    <<mainpc, uiopt, yielded, exhausted, wpc, wrec, wdoc, buffer, committed,
      commits, songs, printed, reader, seenOk, addCalls, addedOk>>

uiVars == <<line, input, content, output, running, rendered, parsed, searched, elapsed>>

vars == <<recVars, fileVars, pipeVars, uiVars>>

(* ------------------------------ inputs -------------------------------- *)

UpperOf(c) ==
    IF \E i \in 1..Len(LowerChars) : LowerChars[i] = c
    THEN UpperChars[CHOOSE i \in 1..Len(LowerChars) : LowerChars[i] = c]
    ELSE c

\* s with the positions in U upper-cased
Cased(s, U) == [i \in 1..Len(s) |-> IF i \in U THEN UpperOf(s[i]) ELSE s[i]]

AllCasings(s) == { Cased(s, U) : U \in SUBSET (1..Len(s)) }

SomeCasings(s) == { Cased(s, U) : U \in { {}, {1}, 1..Len(s) } }

K_GENRE == <<"g","e","n","r","e">>

KeyInputs ==
    AllCasings(K_DATE)
    \cup SomeCasings(K_TRACK) \cup SomeCasings(K_ARTIST) \cup SomeCasings(K_ALBUM)
    \cup SomeCasings(K_TITLE) \cup SomeCasings(K_ALBUM_ARTIST)
    \cup SomeCasings(K_GENRE)
    \cup { <<"T","r","a","c","k","s">>, <<>> }

ValueInputs ==
    { <<"5">>, <<"5","/","1","2">>, <<"f","i","v","e">>, <<"A","b">>,
      <<"0","7","/","x">>, <<"/","3">> }

PathInputs == { <<"/","m","/","a",".","f","l","a","c">> }

DirM == <<"/","m","/">>

\* a tag list as ffmpeg's metadata().iter() yields it
TagsA ==
    << <<<<"T","I","T","L","E">>, <<"A","b">>>>,
       <<<<"t","r","a","c","k">>, <<"5","/","1","2">>>> >>

TagsB ==
    << <<<<"A","l","b","u","m","_","A","r","t","i","s","t">>, <<"b","a">>>>,
       <<<<"G","e","n","r","e">>, <<"a","b">>>> >>

NameInputs ==
    { <<"a", ".">> \o x : x \in AUDIO_EXT }
    \cup { <<"a",".","F","L","A","C">>, <<"a",".","M","p","3">>,
           <<"a",".","t","x","t">>, <<"a",".","j","p","g">>,
           <<"a">>, <<".","f","l","a","c">>, <<"a",".">>,
           <<"a",".","t","x","t",".","m","p","3">> }

\* a file below a directory whose own name ends in .mp3
PathInputsWalk ==
    { DirM \o n : n \in NameInputs } \cup { <<"/","m",".","m","p","3","/","a">> }

MkEntry(path, err, isFile, utf8, canonOk, tags) ==
    [ path |-> path, walkErr |-> err, isFile |-> isFile, utf8 |-> utf8,
      canon |-> IF canonOk THEN Some(path) ELSE None, tags |-> tags ]

\* what a walkdir::Result<DirEntry> can be
WalkErrEntry == MkEntry(<<>>, TRUE, FALSE, TRUE, FALSE, None)

EntryInputs ==
    { MkEntry(p, FALSE, f, u, c, t) :
        p \in PathInputsWalk, f \in BOOLEAN, u \in BOOLEAN, c \in BOOLEAN,
        t \in {None, Some(TagsA)} }
    \cup { WalkErrEntry }

FileIdle ==
    /\ fpc = "off"
    /\ entry = WalkErrEntry
    /\ fres = MapErr({})
    /\ fadded = FALSE
    /\ fcount = 0

Workers == 1..NumWorkers

PipeIdle ==
    /\ mainpc = "off"
    /\ uiopt = "cli"
    /\ yielded = 0
    /\ exhausted = FALSE
    /\ wpc = [w \in Workers |-> "idle"]
    /\ wrec = [w \in Workers |-> NewAudioFile(<<>>)]
    /\ wdoc = [w \in Workers |-> <<>>]
    /\ buffer = <<>>
    /\ committed = <<>>
    /\ commits = 0
    /\ songs = 0
    /\ printed = None
    /\ reader = None
    /\ seenOk = 0
    /\ addCalls = 0
    /\ addedOk = <<>>

\* uibox before its loop (content = String::new(), an empty TextArea and
\* ListView, a running runner); the REPL before its first readline
UiStart ==
    /\ line = None
    /\ input = <<>>
    /\ content = <<>>
    /\ output = <<>>
    /\ running = TRUE
    /\ rendered = FALSE
    /\ parsed = FALSE
    /\ searched = FALSE
    /\ elapsed = FALSE

(* ------------------------- one record's life -------------------------- *)

RecIdle ==
    /\ rphase = "off"
    /\ rec = NewAudioFile(<<>>)
    /\ nplaced = 0
    /\ lastKey = <<>>
    /\ lastVal = <<>>
    /\ doc = <<>>
    /\ recalled = NewAudioFile(<<>>)

\* from_kv_and_path before its loop: Self::new(path.into())
RecInit ==
    /\ rphase = "build"
    /\ rec \in { NewAudioFile(p) : p \in PathInputs }
    /\ nplaced = 0
    /\ lastKey = <<>>
    /\ lastVal = <<>>
    /\ doc = <<>>
    /\ recalled = NewAudioFile(<<>>)
    /\ FileIdle /\ PipeIdle /\ UiStart

\* one iteration of from_kv_and_path's loop: this.place(k, v)
RecPlace ==
    /\ rphase = "build"
    /\ nplaced < MaxTags
    /\ \E k \in KeyInputs, v \in ValueInputs :
          /\ rec' = Place(rec, k, v)
          /\ lastKey' = k
          /\ lastVal' = v
    /\ nplaced' = nplaced + 1
    /\ UNCHANGED <<rphase, doc, recalled, fileVars, pipeVars, uiVars>>

\* f.tantivy_store(&map), as main's map closure calls it on the built record
RecStore ==
    /\ rphase = "build"
    /\ \E order \in KeyOrders(rec.extras) : doc' = TantivyStore(rec, order)
    /\ rphase' = "stored"
    /\ UNCHANGED <<rec, nplaced, lastKey, lastVal, recalled, fileVars, pipeVars, uiVars>>

\* AudioFile::tantivy_recall(map, &search.doc(address).unwrap())
RecRecall ==
    /\ rphase = "stored"
    /\ recalled' = TantivyRecall(StoredDoc(doc))
    /\ rphase' = "recalled"
    /\ UNCHANGED <<rec, nplaced, lastKey, lastVal, doc, fileVars, pipeVars, uiVars>>

RecNext == RecPlace \/ RecStore \/ RecRecall

SpecRecord == RecInit /\ [][RecNext]_vars

(* ------------------- properties of one record's life ------------------ *)

CanonicalKeys == {K_ALBUM_ARTIST, K_ARTIST, K_ALBUM, K_TITLE, K_TRACK, K_DATE}

\* k is c in some casing
IsCasingOf(k, c) ==
    /\ Len(k) = Len(c)
    /\ \A i \in 1..Len(c) : k[i] = c[i] \/ k[i] = UpperOf(c[i])

NoUpper(k) == \A i \in 1..Len(k) : \A j \in 1..Len(UpperChars) : k[i] # UpperChars[j]

PlacedNow == nplaced' = nplaced + 1

C5_ExtrasKeys ==
    \A k \in DOMAIN rec.extras : NoUpper(k) /\ k \notin CanonicalKeys

C5_PlaceStep ==
    PlacedNow =>
        LET k == lastKey'
            v == lastVal'
        IN  /\ IsCasingOf(k, K_ALBUM_ARTIST) => rec' = [rec EXCEPT !.album_artist = Some(v)]
            /\ IsCasingOf(k, K_ARTIST) => rec' = [rec EXCEPT !.artist = Some(v)]
            /\ IsCasingOf(k, K_ALBUM) => rec' = [rec EXCEPT !.album = Some(v)]
            /\ IsCasingOf(k, K_TITLE) => rec' = [rec EXCEPT !.title = Some(v)]
            /\ IsCasingOf(k, K_DATE) => rec' = [rec EXCEPT !.date = Some(v)]
            /\ IsCasingOf(k, K_TRACK) => [rec' EXCEPT !.track = rec.track] = rec
            /\ (\A c \in CanonicalKeys : ~IsCasingOf(k, c)) =>
                  /\ [rec' EXCEPT !.extras = rec.extras] = rec
                  /\ \E lk \in DOMAIN rec'.extras :
                        /\ IsCasingOf(k, lk)
                        /\ NoUpper(lk)
                        /\ rec'.extras[lk] = v
                        /\ DOMAIN rec'.extras = (DOMAIN rec.extras) \cup {lk}
                        /\ \A o \in (DOMAIN rec.extras) \ {lk} :
                              rec'.extras[o] = rec.extras[o]

\* C5: place routes by the lowercased key.  Any casing of album_artist,
\* artist, album, title, track or date writes that canonical field and leaves
\* extras (and every other field) alone; any other key is stored in extras
\* under its lowercased key with the value unchanged, replacing an earlier
\* value of that key; and after any sequence of place calls every extras key
\* is lowercase and is none of the six canonical names.
C5_PlaceCaseInsensitive == [](C5_ExtrasKeys) /\ [][C5_PlaceStep]_vars

\* a mixed-case non-canonical key has overwritten the value stored under
\* another casing of it, and a mixed-case canonical key has been placed
C5_Witness ==
    /\ nplaced = 2
    /\ lastKey = <<"G","E","N","R","E">>
    /\ lastVal = <<"A","b">>
    /\ DOMAIN rec.extras = {K_GENRE}
    /\ rec.extras[K_GENRE] = <<"A","b">>

V_5 == <<"5">>

V_5_12 == <<"5","/","1","2">>

V_FIVE == <<"f","i","v","e">>

\* the part of a track value before its first '/'
BeforeSlash(v) ==
    IF \E i \in 1..Len(v) : v[i] = "/"
    THEN SubSeq(v, 1, (CHOOSE i \in 1..Len(v) :
                          v[i] = "/" /\ \A j \in 1..(i-1) : v[j] # "/") - 1)
    ELSE v

IsNumeral(s) == s # <<>> /\ \A i \in 1..Len(s) : IsDigit(s[i])

C6_TrackStep ==
    (PlacedNow /\ IsCasingOf(lastKey', K_TRACK)) =>
        LET v == lastVal'
            part == BeforeSlash(v)
        IN  /\ IsNumeral(part) => rec'.track = Some(DigitsValue(part))
            /\ v = V_5 => rec'.track = Some(5)
            /\ v = V_5_12 => rec'.track = Some(5)
            /\ (~IsNumeral(part) /\ (part = <<>> \/ part[1] # "+")) => rec' = rec
            /\ v = V_FIVE => rec'.track = rec.track /\ rec'.extras = rec.extras

FieldOf(d, f) == SelectSeq(d, LAMBDA fv : fv[1] = f)

TextOf(d, f) == [i \in 1..Len(FieldOf(d, f)) |-> FieldOf(d, f)[i][2].s]

C6_StillIndexed ==
    rphase \in {"stored", "recalled"} =>
        /\ TextOf(doc, "path") = Some(rec.file_path)
        /\ TextOf(doc, "album") = rec.album
        /\ TextOf(doc, "title") = rec.title
        /\ TextOf(doc, "date") = rec.date
        /\ Len(FieldOf(doc, "track")) = Len(rec.track)

\* C6: placing a track value "N" or "N/total" sets track to the number
\* before the first '/'; a value whose part before '/' does not parse
\* changes nothing (track stays as it was, unset on a fresh record; extras
\* untouched), and the record is still stored with its remaining fields.
C6_TrackExtraction == [](C6_StillIndexed) /\ [][C6_TrackStep]_vars

\* "five" was placed under a cased track key after a title, and the record
\* was stored with the title and without a track
C6_Witness ==
    /\ rphase = "stored"
    /\ IsCasingOf(lastKey, K_TRACK) /\ lastKey # K_TRACK
    /\ lastVal = V_FIVE
    /\ rec.track = None
    /\ IsSome(rec.title)
    /\ TextOf(doc, "title") = rec.title
    /\ FieldOf(doc, "track") = <<>>

RoundTripRest ==
    /\ recalled.file_path = rec.file_path
    /\ recalled.album = rec.album
    /\ recalled.title = rec.title
    /\ recalled.track = rec.track
    /\ recalled.date = rec.date

\* C4 as stated: store then recall reproduces path, artist, album, title,
\* track and date exactly, absent fields included.
C4_RoundTripExact ==
    rphase = "recalled" => RoundTripRest /\ recalled.artist = rec.artist

\* C4 amended: store then recall reproduces path, album, title, track and
\* date exactly, absent fields included; artist comes back as the record's
\* artist when it has one and otherwise as its album_artist (absent only
\* when both are absent).
C4_RoundTripFallback ==
    rphase = "recalled" =>
        /\ RoundTripRest
        /\ recalled.artist = (IF rec.artist # None THEN rec.artist ELSE rec.album_artist)
        /\ recalled.album_artist = None /\ recalled.extras = <<>>

\* a record with album_artist and no artist went through store and recall
C4_Witness ==
    /\ rphase = "recalled"
    /\ rec.artist = None
    /\ IsSome(rec.album_artist)
    /\ recalled.artist = rec.album_artist

(* ---------------------- one directory entry's way --------------------- *)

\* an item of WalkDir::new(subdir).follow_links(true).into_iter()
FileInit ==
    /\ fpc = "walked"
    /\ entry \in EntryInputs
    /\ fres = MapErr({})
    /\ fadded = FALSE
    /\ fcount = 0
    /\ RecIdle /\ PipeIdle /\ UiStart

\* .filter(|p| p.as_ref().map_or(true, |f| f.file_type().is_file()))
FileFilter ==
    /\ fpc = "walked"
    /\ fpc' = IF PassesFilter(entry) THEN "filtered" ELSE "skipped"
    /\ UNCHANGED <<entry, fres, fadded, fcount, recVars, pipeVars, uiVars>>

\* .map(|res| { ... }) of recursive_find_audiofiles
FileMap ==
    /\ fpc = "filtered"
    /\ fres' = MapEntry(entry)
    /\ fpc' = "mapped"
    /\ UNCHANGED <<entry, fadded, fcount, recVars, pipeVars, uiVars>>

\* main: .map(|v| v.map(|f| writer.add_document(..))).filter(..).count()
FileIndex ==
    /\ fpc = "mapped"
    /\ IF fres.ok
       THEN /\ fadded' = TRUE
            /\ \E addOk \in BOOLEAN : fcount' = IF addOk THEN 1 ELSE 0
       ELSE UNCHANGED <<fadded, fcount>>
    /\ fpc' = "done"
    /\ UNCHANGED <<entry, fres, recVars, pipeVars, uiVars>>

FileNext == FileFilter \/ FileMap \/ FileIndex

SpecFile == FileInit /\ [][FileNext]_vars

\* the entry went through the map closure
Mapped == fpc \in {"mapped", "done"}

\* the entry reached the extension check of the map closure: a regular
\* file the walk could read, with a UTF-8 path
ReachedExtCheck == Mapped /\ ~entry.walkErr /\ entry.utf8

\* the entry went on to canonicalization, the step after the check
Accepted == "canonicalize" \in fres.calls

NameIs(n) == entry.path = DirM \o n

\* C8: a discovered regular file (with a UTF-8 path) passes the extension
\* check iff its extension is, compared case-sensitively, one of the
\* thirteen of AUDIO_EXT: flac, mp3 and wav pass; txt, jpg, FLAC, Mp3 and a
\* name without extension do not.  A rejected file is dropped before
\* canonicalization and decoding: no external call, no add_document, not
\* counted in the number main prints.
C8_ExtensionAllowList ==
    /\ ReachedExtCheck =>
          /\ Accepted <=> (Extension(entry.path) # None
                            /\ Extension(entry.path)[1] \in AUDIO_EXT)
          /\ \A x \in AUDIO_EXT : NameIs(<<"a", ".">> \o x) => Accepted
          /\ NameIs(<<"a",".","f","l","a","c">>) => Accepted
          /\ NameIs(<<"a",".","m","p","3">>) => Accepted
          /\ NameIs(<<"a",".","w","a","v">>) => Accepted
          /\ NameIs(<<"a",".","t","x","t">>) => ~Accepted
          /\ NameIs(<<"a",".","j","p","g">>) => ~Accepted
          /\ NameIs(<<"a",".","F","L","A","C">>) => ~Accepted
          /\ NameIs(<<"a",".","M","p","3">>) => ~Accepted
          /\ NameIs(<<"a">>) => ~Accepted
          /\ NameIs(<<".","f","l","a","c">>) => ~Accepted
    /\ (Mapped /\ ~Accepted) =>
          /\ fres.calls = {}
          /\ ~fres.ok
          /\ ~fadded
          /\ fcount = 0
    /\ fpc = "skipped" => (fres.calls = {} /\ ~fadded /\ fcount = 0)

\* an upper-case FLAC file that could be canonicalized and decoded was
\* dropped at the extension check
C8_Witness ==
    /\ fpc = "done"
    /\ NameIs(<<"a",".","F","L","A","C">>)
    /\ entry.isFile /\ entry.utf8 /\ entry.canon # None /\ entry.tags # None
    /\ ~fres.ok /\ fres.calls = {} /\ ~fadded

(* ------------------------------ main ---------------------------------- *)

\* the directory tree of the model: one entry per way an entry can fail,
\* a directory, and two decodable audio files
PipeEntries ==
    { WalkErrEntry,
      MkEntry(DirM \o <<"a",".","o","g","g">>, FALSE, FALSE, TRUE, TRUE, None),
      MkEntry(DirM \o <<"a",".","o","p","u","s">>, FALSE, TRUE, FALSE, TRUE, Some(TagsA)),
      MkEntry(DirM \o <<"a">>, FALSE, TRUE, TRUE, TRUE, Some(TagsA)),
      MkEntry(DirM \o <<"a",".","t","x","t">>, FALSE, TRUE, TRUE, TRUE, None),
      MkEntry(DirM \o <<"a",".","F","L","A","C">>, FALSE, TRUE, TRUE, TRUE, Some(TagsA)),
      MkEntry(DirM \o <<"a",".","w","m","a">>, FALSE, TRUE, TRUE, FALSE, Some(TagsA)),
      MkEntry(DirM \o <<"a",".","w","a","v">>, FALSE, TRUE, TRUE, TRUE, None),
      MkEntry(DirM \o <<"a",".","f","l","a","c">>, FALSE, TRUE, TRUE, TRUE, Some(TagsA)),
      MkEntry(DirM \o <<"a",".","m","p","3">>, FALSE, TRUE, TRUE, TRUE, Some(TagsB)) }

\* main up to the parallel iterator: an empty RAM index and its writer
PipeInit ==
    /\ mainpc = "index"
    /\ uiopt \in {"cli", "tui"}
    /\ yielded = 0
    /\ exhausted = FALSE
    /\ wpc = [w \in Workers |-> "idle"]
    /\ wrec = [w \in Workers |-> NewAudioFile(<<>>)]
    /\ wdoc = [w \in Workers |-> <<>>]
    /\ buffer = <<>>
    /\ committed = <<>>
    /\ commits = 0
    /\ songs = 0
    /\ printed = None
    /\ reader = None
    /\ seenOk = 0
    /\ addCalls = 0
    /\ addedOk = <<>>
    /\ UiStart /\ RecIdle /\ FileIdle

\* an entry all of whose steps succeed (stated on the entry, not on the code)
Healthy(e) ==
    /\ ~e.walkErr /\ e.isFile /\ e.utf8
    /\ e.canon # None /\ e.tags # None
    /\ \E x \in AUDIO_EXT :
          /\ Len(e.path) > Len(x) + 1
          /\ SubSeq(e.path, Len(e.path) - Len(x), Len(e.path)) = <<".">> \o x
          /\ e.path[Len(e.path) - Len(x) - 1] # "/"

CountsEveryOk(extracted, addOk) == extracted

\* main's .filter(|v| v.as_ref().is_ok_and(|v| v.is_ok())) before .count()
CountsAsSong(extracted, addOk) == extracted /\ addOk

CountReturnedEarly == exhausted

\* .count() returns: the bridged walk is exhausted and every worker has
\* finished the item it took
CountReturned == exhausted /\ \A w \in Workers : wpc[w] = "idle"

\* a rayon worker takes the next item of the bridged walk through filter,
\* the map closure and tantivy_store, up to its call of writer.add_document
Take(w) ==
    /\ mainpc = "index"
    /\ ~exhausted
    /\ yielded < MaxEntries
    /\ wpc[w] = "idle"
    /\ \E e \in PipeEntries :
          /\ seenOk' = seenOk + (IF Healthy(e) THEN 1 ELSE 0)
          /\ IF PassesFilter(e) /\ MapEntry(e).ok
             THEN \E order \in KeyOrders(MapEntry(e).rec.extras) :
                     /\ wpc' = [wpc EXCEPT ![w] = "adding"]
                     /\ wrec' = [wrec EXCEPT ![w] = MapEntry(e).rec]
                     /\ wdoc' = [wdoc EXCEPT ![w] = TantivyStore(MapEntry(e).rec, order)]
                     /\ addCalls' = addCalls + 1
             ELSE UNCHANGED <<wpc, wrec, wdoc, addCalls>>
    /\ yielded' = yielded + 1
    /\ UNCHANGED <<mainpc, uiopt, exhausted, buffer, committed, commits, songs,
                   printed, reader, addedOk, uiVars, recVars, fileVars>>

\* writer.add_document returns to the worker: Ok (the document is in the
\* writer's buffer) or Err; the filter before count() decides what counts
AddReturn(w) ==
    /\ wpc[w] = "adding"
    /\ \E addOk \in BOOLEAN :
          /\ buffer' = IF addOk THEN Append(buffer, wdoc[w]) ELSE buffer
          /\ addedOk' = IF addOk THEN Append(addedOk, wrec[w]) ELSE addedOk
          /\ songs' = songs + (IF CountsAsSong(TRUE, addOk) THEN 1 ELSE 0)
    /\ wpc' = [wpc EXCEPT ![w] = "idle"]
    /\ wrec' = [wrec EXCEPT ![w] = NewAudioFile(<<>>)]
    /\ wdoc' = [wdoc EXCEPT ![w] = <<>>]
    /\ UNCHANGED <<mainpc, uiopt, yielded, exhausted, committed, commits,
                   printed, reader, seenOk, addCalls, uiVars, recVars, fileVars>>

\* the walk of every root directory is over: the iterator returns None
WalkEnd ==
    /\ mainpc = "index"
    /\ ~exhausted
    /\ exhausted' = TRUE
    /\ UNCHANGED <<mainpc, uiopt, yielded, wpc, wrec, wdoc, buffer, committed,
                   commits, songs, printed, reader, seenOk, addCalls, addedOk,
                   uiVars, recVars, fileVars>>

\* writer.commit().unwrap() succeeds; println!("{songs} songs in index");
\* drop(writer)
CommitOk ==
    /\ mainpc = "index"
    /\ CountReturned
    /\ commits' = commits + 1
    /\ committed' = buffer
    /\ printed' = Some(songs)
    /\ mainpc' = "reader"
    /\ UNCHANGED <<uiopt, yielded, exhausted, wpc, wrec, wdoc, buffer, songs,
                   reader, seenOk, addCalls, addedOk, uiVars, recVars, fileVars>>

\* writer.commit() returns Err and unwrap panics
CommitFail ==
    /\ mainpc = "index"
    /\ CountReturned
    /\ commits' = commits + 1
    /\ mainpc' = "panicked"
    /\ UNCHANGED <<uiopt, yielded, exhausted, wpc, wrec, wdoc, buffer, committed,
                   songs, printed, reader, seenOk, addCalls, addedOk, uiVars,
                   recVars, fileVars>>

\* index.reader().unwrap(), the query parser, args.ui.get_ui().spawn_ui(..)
MakeReader ==
    /\ mainpc = "reader"
    /\ reader' = Some(committed)
    /\ mainpc' = "serve"
    /\ UNCHANGED <<uiopt, yielded, exhausted, wpc, wrec, wdoc, buffer, committed,
                   commits, songs, printed, seenOk, addCalls, addedOk, uiVars,
                   recVars, fileVars>>

\* index.reader() returns Err and unwrap panics
ReaderFail ==
    /\ mainpc = "reader"
    /\ mainpc' = "panicked"
    /\ UNCHANGED <<uiopt, yielded, exhausted, wpc, wrec, wdoc, buffer, committed,
                   commits, songs, printed, reader, seenOk, addCalls, addedOk,
                   uiVars, recVars, fileVars>>

(* ------------------------------ front ends ---------------------------- *)

LineInputs ==
    { <<>>, <<"a">>, <<"A","b">>, <<"b"," ","5">>, <<" ">>, <<"b","b">> }

TypedChars == {"a", "b"}

\* what one runner.step() can deliver to the input area or the runner
Events ==
    { [kind |-> "none", c |-> ""], [kind |-> "quit", c |-> ""],
      [kind |-> "backspace", c |-> ""] }
    \cup { [kind |-> "type", c |-> c] : c \in TypedChars }

\* the TextArea's content after the event
StepInput(text, ev) ==
    CASE ev.kind = "type" -> Append(text, ev.c)
      [] ev.kind = "backspace" ->
            IF text = <<>> THEN text ELSE SubSeq(text, 1, Len(text) - 1)
      [] OTHER -> text

\* RustylineUI::spawn_ui, one turn of its loop on a line read
ReplLine ==
    /\ mainpc = "serve"
    /\ uiopt = "cli"
    /\ \E l \in LineInputs :
          /\ line' = Some(l)
          /\ parsed' = TRUE
          /\ searched' = TRUE
          /\ output' = RecallHits(Reversed(Search(ParseQueryLenient(l), reader[1], ReplLimit)),
                                  reader[1])
          /\ elapsed' = (l # <<>>)
    /\ UNCHANGED <<input, content, running, rendered, pipeVars, recVars, fileVars>>

\* editor.readline returns Err (end of input, interrupt): the loop ends
ReplEof ==
    /\ mainpc = "serve"
    /\ uiopt = "cli"
    /\ mainpc' = "exit"
    /\ UNCHANGED <<uiopt, yielded, exhausted, wpc, wrec, wdoc, buffer, committed,
                   commits, songs, printed, reader, seenOk, addCalls, addedOk,
                   uiVars, recVars, fileVars>>

\* render_search: the new children of the ListView, and whether the query
\* parser and the searcher were invoked
RenderSearch(q, snap) ==
    IF q = <<>>
    THEN [output |-> <<>>, parsed |-> FALSE, searched |-> FALSE]
    ELSE [output |-> RecallHits(Search(ParseQueryLenient(q), snap, TuiLimit), snap),
          parsed |-> TRUE, searched |-> TRUE]

\* uibox, one turn of its loop: runner.step(), then the comparison of the
\* input area's content with `content` and, if they differ, render_search
TuiIterate ==
    /\ mainpc = "serve"
    /\ uiopt = "tui"
    /\ running
    /\ \E ev \in Events :
          /\ ev.kind = "type" => Len(input) < MaxInputLen
          /\ input' = StepInput(input, ev)
          /\ running' = (ev.kind # "quit")
    /\ IF InputChanged(input', content)
       THEN /\ content' = input'
            /\ output' = RenderSearch(input', reader[1]).output
            /\ parsed' = RenderSearch(input', reader[1]).parsed
            /\ searched' = RenderSearch(input', reader[1]).searched
            /\ rendered' = TRUE
       ELSE /\ UNCHANGED <<content, output>>
            /\ parsed' = FALSE
            /\ searched' = FALSE
            /\ rendered' = FALSE
    /\ UNCHANGED <<line, elapsed, pipeVars, recVars, fileVars>>

\* while runner.is_running() is false: uibox returns
TuiExit ==
    /\ mainpc = "serve"
    /\ uiopt = "tui"
    /\ ~running
    /\ mainpc' = "exit"
    /\ UNCHANGED <<uiopt, yielded, exhausted, wpc, wrec, wdoc, buffer, committed,
                   commits, songs, printed, reader, seenOk, addCalls, addedOk,
                   uiVars, recVars, fileVars>>

Init == PipeInit

IndexNext == \E w \in Workers : Take(w) \/ AddReturn(w)

UiNext == ReplLine \/ ReplEof \/ TuiIterate \/ TuiExit

Next ==
    \/ IndexNext
    \/ WalkEnd
    \/ CommitOk
    \/ CommitFail
    \/ MakeReader
    \/ ReaderFail
    \/ UiNext

Spec == Init /\ [][Next]_vars

\* rayon runs every worker to the end of its item and main runs on: no
\* thread of the program waits for anything but these steps
FairSpec ==
    /\ Spec
    /\ WF_vars(IndexNext)
    /\ WF_vars(WalkEnd)
    /\ WF_vars(CommitOk \/ CommitFail)
    /\ WF_vars(MakeReader \/ ReaderFail)

(* ------------------- the front end on any committed index ------------- *)

PathA == DirM \o <<"a",".","f","l","a","c">>

PathB == DirM \o <<"a",".","m","p","3">>

RecOf(kind) ==
    IF kind = "A" THEN FromKvAndPath(PathA, TagsA) ELSE FromKvAndPath(PathB, TagsB)

\* the records of n indexed files: all of one kind, or alternating
RecsInputs ==
    { [i \in 1..n |-> RecOf(k)] : n \in 0..MaxDocs, k \in {"A", "B"} }
    \cup { [i \in 1..n |-> RecOf(IF i % 2 = 1 THEN "A" ELSE "B")] : n \in 0..MaxDocs }

SnapOf(recs) ==
    [i \in 1..Len(recs) |->
        TantivyStore(recs[i], CHOOSE o \in KeyOrders(recs[i].extras) : TRUE)]

\* main at spawn_ui, after it indexed and committed some directory tree
UiInit ==
    /\ mainpc = "serve"
    /\ uiopt \in {"cli", "tui"}
    /\ addedOk \in RecsInputs
    /\ buffer = SnapOf(addedOk)
    /\ committed = buffer
    /\ reader = Some(buffer)
    /\ yielded = Len(buffer)
    /\ exhausted = TRUE
    /\ wpc = [w \in Workers |-> "idle"]
    /\ wrec = [w \in Workers |-> NewAudioFile(<<>>)]
    /\ wdoc = [w \in Workers |-> <<>>]
    /\ commits = 1
    /\ songs = Len(buffer)
    /\ printed = Some(Len(buffer))
    /\ seenOk = Len(buffer)
    /\ addCalls = Len(buffer)
    /\ UiStart /\ RecIdle /\ FileIdle

SpecUI == UiInit /\ [][UiNext]_vars

(* ------------------------------ properties ---------------------------- *)

Adding == { w \in Workers : wpc[w] = "adding" }

Serving == mainpc \in {"serve", "exit"}

C1_PhaseInv ==
    /\ commits <= 1
    /\ Adding # {} => (mainpc = "index" /\ commits = 0)
    /\ reader # None => (commits = 1 /\ Serving)
    /\ (parsed \/ searched \/ rendered \/ line # None) => reader # None
    /\ Serving => (commits = 1 /\ Adding = {} /\ reader # None)

C1_PhaseStep ==
    /\ (buffer' # buffer \/ addCalls' # addCalls) =>
          (commits = 0 /\ commits' = 0 /\ mainpc = "index" /\ reader = None)
    /\ commits' # commits => (commits = 0 /\ Adding = {} /\ reader = None)
    /\ reader' # reader => (reader = None /\ commits = 1 /\ reader' = Some(committed))
    /\ Serving =>
          (Serving' /\ UNCHANGED <<buffer, committed, commits, addCalls, reader, wpc>>)

\* C1: the three phases never interleave.  Every add_document call starts
\* and ends before the commit, the commit happens at most once and only
\* when no worker is in an add, the reader is created and every parse and
\* search runs only after the commit, and once serving has started the
\* writer's buffer, the committed index and the reader never change.
C1_PhasesNeverInterleave == [](C1_PhaseInv) /\ [][C1_PhaseStep]_vars

\* two documents were added and committed and a query found them
C1_Witness ==
    /\ mainpc = "serve"
    /\ commits = 1
    /\ Len(reader[1]) = 2
    /\ searched
    /\ Len(output) = 2

\* C2: at no time are two extraction workers inside writer.add_document.
C2_AddsSerialized == Cardinality(Adding) <= 1

\* C3: an empty query gives no hits and invokes neither the query parser
\* nor the searcher, in the REPL (an empty line) and in the TUI (empty
\* input content).
C3_EmptyQuerySkipsSearch ==
    /\ (uiopt = "cli" /\ line = Some(<<>>)) =>
          (~parsed /\ ~searched /\ output = <<>>)
    /\ (uiopt = "tui" /\ rendered /\ content = <<>>) =>
          (~parsed /\ ~searched /\ output = <<>>)

HealthyPaths == { e.canon[1] : e \in { x \in PipeEntries : Healthy(x) } }

DocPath(d) == d[1][2].s

C7_LocalFailures ==
    /\ addCalls = seenOk
    /\ Len(buffer) + Cardinality(Adding) <= seenOk
    /\ \A i \in 1..Len(buffer) : DocPath(buffer[i]) \in HealthyPaths
    /\ \A w \in Adding : DocPath(wdoc[w]) \in HealthyPaths
    /\ mainpc = "panicked" => commits = 1

\* C7: per-file failures are local.  Whatever mix of entries the walk
\* yields, add_document is called exactly for the entries every step of
\* which succeeds, no failing entry leaves a document, nothing but commit()
\* or index.reader() can stop the run (and only after the batch), the
\* commit is always reached, and from a successful commit the run goes on
\* to serving unless index.reader() itself fails.
C7_FailuresAreLocal ==
    /\ [](C7_LocalFailures)
    /\ <>(commits = 1)
    /\ [](mainpc = "reader" => <>(mainpc \in {"serve", "exit", "panicked"}))

\* the walk yielded two failing entries and one good file, whose document
\* was committed and is served
C7_Witness ==
    /\ mainpc = "serve"
    /\ yielded = 3
    /\ seenOk = 1
    /\ Len(reader[1]) = 1

FirstUpTo(xs, n) == [i \in 1..(IF Len(xs) < n THEN Len(xs) ELSE n) |-> xs[i]]

C9_LoopInv ==
    (uiopt = "tui" /\ Serving) =>
        /\ content = input
        /\ Len(output) <= 20
        /\ output =
              IF content = <<>> THEN <<>>
              ELSE RecallHits(
                      FirstUpTo(MatchingAddresses(ParseQueryLenient(content), reader[1], 1), 20),
                      reader[1])

C9_LoopStep ==
    /\ TuiIterate =>
          /\ rendered' <=> (input' # content)
          /\ ~rendered' => (output' = output /\ ~parsed' /\ ~searched')
          /\ (rendered' /\ input' # <<>>) => (parsed' /\ searched')
    /\ (uiopt = "tui" /\ mainpc = "serve") =>
          /\ mainpc' = "exit" => ~running
          /\ ~running => mainpc' = "exit"

\* C9: every turn of the TUI loop compares the input content with the
\* last-rendered content and runs render_search exactly when they differ;
\* at the end of every turn the last-rendered content is the input content
\* and the list holds the first (at most 20) hits of searching it, nothing
\* when it is empty; the loop is left only, and then at once, when the
\* runner has stopped.
C9_PollAndDiff == [](C9_LoopInv) /\ [][C9_LoopStep]_vars

\* more than 20 documents match the typed content and the list shows 20
C9_Witness ==
    /\ uiopt = "tui"
    /\ mainpc = "serve"
    /\ rendered
    /\ content # <<>>
    /\ Len(reader[1]) > 20
    /\ Len(output) = 20

\* C10: before the commit no reader can see a document; the snapshot
\* searches read holds exactly one document per record whose add_document
\* returned Ok, in that order, and nothing else, and the number printed as
\* "N songs in index" is its size.
C10_VisibilityAndCount ==
    /\ commits = 0 => (committed = <<>> /\ reader = None /\ printed = None)
    /\ mainpc = "index" => committed = <<>>
    /\ mainpc \in {"reader", "serve", "exit"} =>
          /\ Len(committed) = Len(addedOk)
          /\ \A i \in 1..Len(committed) :
                \E o \in KeyOrders(addedOk[i].extras) :
                    committed[i] = TantivyStore(addedOk[i], o)
          /\ printed = Some(Len(committed))
    /\ reader # None => reader[1] = committed

\* three files were decoded, one add_document failed, two documents are
\* served and "2 songs in index" was printed
C10_Witness ==
    /\ mainpc = "serve"
    /\ addCalls = 3
    /\ Len(reader[1]) = 2
    /\ printed = Some(2)

====
